---- MODULE Spec2Model ----
(***************************************************************************)
(* reposketch: the recursive directory walks of src/traverseRepository.js  *)
(* (printTree, collectFileContents, collectDirectoryStats) and the         *)
(* exported operations built on them, as a state machine over an explicit  *)
(* call stack.  The directory tree on disk, the options and the outcome of *)
(* every filesystem call are fixed by the initial state; each action is    *)
(* one stretch of straight-line code of one walker.                        *)
(***************************************************************************)
EXTENDS Integers, Sequences, FiniteSets, TLC

(***************************************************************************)
(* Bounds of the model.                                                    *)
(***************************************************************************)
\* number of entries below the root directory
MaxNodes == 2
\* largest value of the maxDepth option that is tried (besides -1)
MaxDepthOpt == 1

VARIABLES
  tree,        \* the entries on disk: node id -> [parent, name, kind, readable, size]
  root,        \* the path given to the operation: [kind, readable]
  disk,        \* how many writes to the output artifact still succeed (-1: all)
  op,          \* the exported operation that is called
  opts,        \* the options object given to it
  pc,          \* where the exported operation is
  walkOpts,    \* the options object the running walker was called with
  stack,       \* the frames of the recursive walker that is running
  out,         \* the lines handed to the logger, in order
  artifact,    \* the records written to the output artifact, in order
  treeResult,  \* what the top-level printTree call returned
  fileCount,   \* what the top-level collectFileContents call returned
  stats,       \* the stats object of generateDirectorySummary
  result,      \* what the exported operation returned
  walked       \* the running walk so far: the directories it has called readdir
               \* on and the entries its loop has taken up, in order

vars == <<tree, root, disk, op, opts, pc, walkOpts, stack, out, artifact, treeResult,
          fileCount, stats, result, walked>>

(***************************************************************************)
(* Strings.  A name is a TLA+ string; Spelling gives its characters, so    *)
(* that startsWith, extname, toLowerCase, localeCompare and the wildcard   *)
(* match are computed on characters as the code computes them.             *)
(***************************************************************************)
Spelling ==
     "a.txt"        :> <<"a", ".", "t", "x", "t">>
  @@ "b"            :> <<"b">>
  @@ ".hidden"      :> <<".", "h", "i", "d", "d", "e", "n">>
  @@ "c.js"         :> <<"c", ".", "j", "s">>
  @@ "D.JS"         :> <<"D", ".", "J", "S">>
  @@ "a.js"         :> <<"a", ".", "j", "s">>
  @@ "node_modules" :> <<"n", "o", "d", "e", "_", "m", "o", "d", "u", "l", "e", "s">>
  @@ "pkg"          :> <<"p", "k", "g">>
  @@ "index.js"     :> <<"i", "n", "d", "e", "x", ".", "j", "s">>
  @@ "*.js"         :> <<"*", ".", "j", "s">>
  @@ "*.txt"        :> <<"*", ".", "t", "x", "t">>
  @@ ".js"          :> <<".", "j", "s">>
  @@ ".txt"         :> <<".", "t", "x", "t">>

\* String.prototype.toLowerCase, one character
ToLowerChar(c) ==
  CASE c = "D" -> "d" [] c = "J" -> "j" [] c = "S" -> "s" [] OTHER -> c

toLowerCase(cs) == [i \in 1 .. Len(cs) |-> ToLowerChar(cs[i])]

\* item.startsWith(".")
startsWithDot(name) == Len(Spelling[name]) > 0 /\ Spelling[name][1] = "."

\* pattern.includes("*")
includesStar(pattern) == \E i \in 1 .. Len(Spelling[pattern]) : Spelling[pattern][i] = "*"

\* path.extname(item), as characters: from the last "." to the end, and empty
\* when there is no "." or the only "." is the first character
extname(name) ==
  LET cs   == Spelling[name]
      dots == {i \in 1 .. Len(cs) : cs[i] = "."}
      last == CHOOSE i \in dots : \A j \in dots : j <= i
  IN  IF dots = {} \/ last = 1 THEN <<>> ELSE SubSeq(cs, last, Len(cs))

\* the order of the characters under the default collation: punctuation,
\* then letters; case is a tie-break only
Collation ==
  <<"_", ".", "*", "a", "b", "c", "d", "e", "f", "g", "h", "i", "j", "k", "l", "m",
    "n", "o", "p", "q", "r", "s", "t", "u", "v", "w", "x", "y", "z">>

Rank(c) == CHOOSE i \in 1 .. Len(Collation) : Collation[i] = ToLowerChar(c)

RECURSIVE ComparePrimary(_, _, _)
ComparePrimary(x, y, i) ==
  IF i > Len(x) /\ i > Len(y) THEN 0
  ELSE IF i > Len(x) THEN -1
  ELSE IF i > Len(y) THEN 1
  ELSE IF Rank(x[i]) < Rank(y[i]) THEN -1
  ELSE IF Rank(x[i]) > Rank(y[i]) THEN 1
  ELSE ComparePrimary(x, y, i + 1)

RECURSIVE CompareCase(_, _, _)
CompareCase(x, y, i) ==
  IF i > Len(x) THEN 0
  ELSE IF x[i] = y[i] THEN CompareCase(x, y, i + 1)
  ELSE IF ToLowerChar(x[i]) = x[i] THEN -1 ELSE 1

\* a.localeCompare(b)
localeCompare(a, b) ==
  LET p == ComparePrimary(Spelling[a], Spelling[b], 1)
  IN  IF p # 0 THEN p ELSE CompareCase(Spelling[a], Spelling[b], 1)

\* new RegExp("^" + pattern.replace(/\./g, "\\.").replace(/\*/g, ".*") + "$")
\* tested on the string from position i against the pattern from position j:
\* "*" stands for any run of characters, every other character for itself
RECURSIVE RegexTest(_, _, _, _)
RegexTest(s, i, p, j) ==
  IF j > Len(p) THEN i > Len(s)
  ELSE IF p[j] = "*"
       THEN RegexTest(s, i, p, j + 1) \/ (i <= Len(s) /\ RegexTest(s, i + 1, p, j))
       ELSE i <= Len(s) /\ s[i] = p[j] /\ RegexTest(s, i + 1, p, j + 1)

minimatch(string, pattern) == RegexTest(Spelling[string], 1, Spelling[pattern], 1)

\* exclude.includes(item)
includes(list, item) == \E k \in 1 .. Len(list) : list[k] = item

(***************************************************************************)
(* The filesystem.                                                         *)
(***************************************************************************)
RootId == 0

\* the entries below the root
Entries == 1 .. Len(tree)

\* fs.readdirSync(dir): the entries of the directory, in the order the
\* operating system lists them (here: the order of the node ids)
RECURSIVE ChildrenFrom(_, _)
ChildrenFrom(d, n) ==
  IF n > Len(tree) THEN <<>>
  ELSE IF tree[n].parent = d THEN <<n>> \o ChildrenFrom(d, n + 1)
  ELSE ChildrenFrom(d, n + 1)

readdirSync(d) == ChildrenFrom(d, 1)

\* does fs.readdirSync(dir) throw
readdirThrows(d) ==
  IF d = RootId THEN root.kind # "dir" \/ ~ root.readable
  ELSE tree[d].kind # "dir" \/ ~ tree[d].readable

\* does fs.statSync(entry) throw (a broken link, a vanished entry)
statThrows(n) == tree[n].kind = "broken"

isDirectory(n) == tree[n].kind = "dir"

RECURSIVE Level(_)
\* how many directory levels the entry lies below the root (a child of the
\* root lies 1 level below it)
Level(n) == IF n = RootId THEN 0 ELSE 1 + Level(tree[n].parent)

\* the entries of a tree built so far that may take a child
DirsOf(t) == {RootId} \cup {n \in 1 .. Len(t) : t[n].kind = "dir"}

\* all trees of n entries: every entry lies in a directory created before
\* it, and no directory holds two entries of the same name
RECURSIVE Trees(_, _, _)
Trees(n, names, variants) ==
  IF n = 0 THEN {<<>>}
  ELSE UNION {
         UNION {
           { Append(t, [parent |-> p, name |-> nm, kind |-> v.kind,
                        readable |-> v.readable, size |-> v.size]) :
               nm \in {x \in names : \A m \in 1 .. Len(t) :
                                        t[m].parent = p => t[m].name # x},
               v \in variants }
           : p \in DirsOf(t) }
         : t \in Trees(n - 1, names, variants) }

(***************************************************************************)
(* The record of the running walk.                                         *)
(***************************************************************************)
NoWalk == [dirs |-> <<>>, items |-> <<>>]

\* fs.readdirSync(d) is called
Enumerating(d) == walked' = [walked EXCEPT !.dirs = Append(@, d)]

\* the loop over the items takes up entry n
Handling(n) == walked' = [walked EXCEPT !.items = Append(@, n)]

(***************************************************************************)
(* printTree                                                               *)
(***************************************************************************)
Top == stack[Len(stack)]

Callers == SubSeq(stack, 1, Len(stack) - 1)

NoError == "null"

\* the checks of the path at the head of printTree: the message of the
\* error that is thrown, or NoError
ValidationError(d) ==
  IF d = RootId
  THEN CASE root.kind = "invalid" -> "Invalid directory path provided"
         [] root.kind = "missing" -> "Directory does not exist"
         [] root.kind = "file"    -> "Path is not a directory"
         [] OTHER                 -> NoError
  ELSE CASE tree[d].kind = "broken" -> "Directory does not exist"
         [] tree[d].kind = "file"   -> "Path is not a directory"
         [] OTHER                   -> NoError

\* the connectors and the prefix segments, four characters each (the box
\* drawing characters of the source are written in ASCII)
NotLast == "|-- "

Last == "+-- "

Bar == "|   "

Blank == "    "

Line(kind, prefix, connector, node, slash, sizeInfo) ==
  [kind |-> kind, prefix |-> prefix, connector |-> connector, node |-> node,
   item |-> IF node = RootId THEN "" ELSE tree[node].name,
   slash |-> slash, sizeInfo |-> sizeInfo]

\* the filter of printTree: hidden entries, then exclude.includes(item)
TreeFilter(n, o) ==
  /\ ~ (~ o.showHidden /\ startsWithDot(tree[n].name))
  /\ ~ includes(o.exclude, tree[n].name)

\* the comparator handed to items.sort
Compare_NamesOnly(a, b) ==
  IF statThrows(a) \/ statThrows(b) THEN 0
  ELSE localeCompare(tree[a].name, tree[b].name)

Compare(a, b) ==
  IF statThrows(a) \/ statThrows(b) THEN 0
  ELSE IF isDirectory(a) /\ ~ isDirectory(b) THEN -1
  ELSE IF ~ isDirectory(a) /\ isDirectory(b) THEN 1
  ELSE localeCompare(tree[a].name, tree[b].name)

Range(s) == {s[i] : i \in 1 .. Len(s)}

Orders(s) ==
  {p \in [1 .. Len(s) -> Range(s)] : \A x \in Range(s) : \E i \in 1 .. Len(s) : p[i] = x}

IndexOf(s, x) == CHOOSE i \in 1 .. Len(s) : s[i] = x

\* the comparator orders the items consistently: "not after" is transitive
Consistent(s) ==
  \A a \in Range(s), b \in Range(s), c \in Range(s) :
    (Compare(a, b) <= 0 /\ Compare(b, c) <= 0) => Compare(a, c) <= 0

\* Array.prototype.sort: a stable sort when the comparator is consistent; an
\* order the engine chooses when it is not
SortOutcomes(s) ==
  IF Consistent(s)
  THEN {p \in Orders(s) :
          \A i \in 1 .. Len(s), j \in 1 .. Len(s) :
            i < j => \/ Compare(p[i], p[j]) < 0
                     \/ /\ Compare(p[i], p[j]) = 0
                        /\ IndexOf(s, p[i]) < IndexOf(s, p[j])}
  ELSE Orders(s)

\* the call printTree(dir, {...options, prefix, currentDepth}) begins
Frame(d, prefix, depth) ==
  [dir |-> d, prefix |-> prefix, currentDepth |-> depth, phase |-> "enter",
   items |-> <<>>, i |-> 1, result |-> [success |-> TRUE, error |-> NoError]]

\* what the caller does with the returned subResult, lines 149-156
AfterSubResult_SetsFailure(caller, sub) ==
  [caller EXCEPT !.result = IF ~ sub.success
                            THEN [success |-> FALSE, error |-> sub.error] ELSE @,
                 !.i = @ + 1]

AfterSubResult(caller, sub) ==
  [caller EXCEPT !.result.error = IF ~ sub.success THEN sub.error ELSE @,
                 !.i = @ + 1]

\* the running call returns res: to the recursive caller, or to the
\* exported operation
printTreeReturn(res) ==
  IF Len(stack) = 1
  THEN /\ stack' = <<>>
       /\ treeResult' = res
       /\ pc' = "afterTree"
  ELSE /\ stack' = Append(SubSeq(stack, 1, Len(stack) - 2),
                          AfterSubResult(stack[Len(stack) - 1], res))
       /\ UNCHANGED <<treeResult, pc>>

\* the depth test of lines 59-62
DepthExceeded_TooDeep(o, depth) == o.maxDepth >= 0 /\ depth > o.maxDepth + 1

DepthExceeded(o, depth) == o.maxDepth >= 0 /\ depth > o.maxDepth

\* line 141, with the prefix handed down as it is
newPrefix_Unchanged(prefix, isLast) == prefix

\* line 141: the prefix of the lines below a directory
newPrefix(prefix, isLast) == Append(prefix, IF isLast THEN Blank ELSE Bar)

\* lines 39-112: validation, depth test, root line, readdir, filter, sort
printTreeEnter ==
  /\ pc = "printTree"
  /\ stack # <<>>
  /\ Top.phase = "enter"
  /\ LET f    == Top
         err  == ValidationError(f.dir)
         out1 == IF f.currentDepth = 0
                 THEN Append(out, Line("root", f.prefix, "", f.dir, TRUE, -1))
                 ELSE out
         keep(n) == TreeFilter(n, walkOpts)
     IN  IF err # NoError
         THEN /\ out' = Append(out, Line("fatal", <<>>, "", f.dir, FALSE, -1))
              /\ printTreeReturn([success |-> FALSE, error |-> err])
         ELSE IF DepthExceeded(walkOpts, f.currentDepth)
         THEN /\ out' = out
              /\ printTreeReturn(f.result)
         ELSE IF readdirThrows(f.dir)
         THEN /\ out' = Append(out1, Line("readError", f.prefix, NotLast, f.dir, FALSE, -1))
              /\ printTreeReturn([success |-> FALSE, error |-> "EACCES"])
         ELSE /\ out' = out1
              /\ \E sorted \in SortOutcomes(SelectSeq(readdirSync(f.dir), keep)) :
                   stack' = Append(Callers, [f EXCEPT !.phase = "loop",
                                                      !.items = sorted, !.i = 1])
              /\ UNCHANGED <<treeResult, pc>>
  /\ IF ValidationError(Top.dir) = NoError /\ ~ DepthExceeded(walkOpts, Top.currentDepth)
     THEN Enumerating(Top.dir)
     ELSE UNCHANGED walked
  /\ UNCHANGED <<tree, root, disk, op, opts, walkOpts, artifact, fileCount, stats, result>>

\* lines 117-161: one turn of the loop over the items
printTreeItem ==
  /\ pc = "printTree"
  /\ stack # <<>>
  /\ Top.phase = "loop"
  /\ Top.i <= Len(Top.items)
  /\ LET f         == Top
         item      == f.items[f.i]
         isLast    == f.i = Len(f.items)
         connector == IF isLast THEN Last ELSE NotLast
         sizeInfo  == IF walkOpts.showSize /\ ~ isDirectory(item)
                      THEN tree[item].size ELSE -1
     IN  IF statThrows(item)
         THEN /\ out' = Append(out, Line("entryError", f.prefix, connector, item, FALSE, -1))
              /\ stack' = Append(Callers, [f EXCEPT !.i = @ + 1])
         ELSE /\ out' = Append(out, Line("entry", f.prefix, connector, item,
                                         isDirectory(item), sizeInfo))
              /\ IF isDirectory(item)
                 THEN stack' = Append(stack,
                                 Frame(item, newPrefix(f.prefix, isLast),
                                       f.currentDepth + 1))
                 ELSE stack' = Append(Callers, [f EXCEPT !.i = @ + 1])
  /\ Handling(Top.items[Top.i])
  /\ UNCHANGED <<tree, root, disk, op, opts, pc, walkOpts, artifact, treeResult,
                 fileCount, stats, result>>

\* lines 163-168: after the loop
printTreeEnd ==
  /\ pc = "printTree"
  /\ stack # <<>>
  /\ Top.phase = "loop"
  /\ Top.i > Len(Top.items)
  /\ out' = IF Len(Top.items) = 0
            THEN Append(out, Line("empty", Top.prefix, Last, Top.dir, FALSE, -1))
            ELSE out
  /\ printTreeReturn(Top.result)
  /\ UNCHANGED <<tree, root, disk, op, opts, walkOpts, artifact, fileCount, stats, result,
                 walked>>

(***************************************************************************)
(* The output artifact                                                     *)
(***************************************************************************)
\* does fs.writeFileSync / fs.appendFileSync on the output path throw
writeThrows == disk = 0

diskAfterWrite == IF disk > 0 THEN disk - 1 ELSE disk

Record(kind, node, processed, skipped) ==
  [kind |-> kind, node |-> node, processed |-> processed, skipped |-> skipped]

\* the result of an exported operation whose catch block ran
Failure(message) ==
  [returned |-> TRUE, success |-> FALSE, error |-> message, filePath |-> FALSE]

(***************************************************************************)
(* collectFileContents                                                     *)
(***************************************************************************)
ContentFrame(d, depth) ==
  [dir |-> d, currentDepth |-> depth, phase |-> "enter", items |-> <<>>, i |-> 1,
   counts |-> [processed |-> 0, skipped |-> 0]]

\* lines 374-392: is the item passed over as hidden or excluded
ContentSkips(n, o) ==
  \/ ~ o.showHidden /\ startsWithDot(tree[n].name)
  \/ \E k \in 1 .. Len(o.exclude) :
       IF includesStar(o.exclude[k])
       THEN minimatch(tree[n].name, o.exclude[k])
       ELSE tree[n].name = o.exclude[k]

\* line 413
TooLarge_AtLimit(n, o) == tree[n].size >= o.maxFileSize

TooLarge(n, o) == tree[n].size > o.maxFileSize

\* lines 426-427: the file's extension is not in the allow-list
ExtensionRejected_CaseSensitive(n, o) ==
  /\ o.extensions.given
  /\ Len(o.extensions.list) > 0
  /\ ~ \E k \in 1 .. Len(o.extensions.list) :
         Spelling[o.extensions.list[k]] = extname(tree[n].name)

ExtensionRejected(n, o) ==
  /\ o.extensions.given
  /\ Len(o.extensions.list) > 0
  /\ ~ \E k \in 1 .. Len(o.extensions.list) :
         Spelling[o.extensions.list[k]] = toLowerCase(extname(tree[n].name))

\* does fs.readFileSync(file) throw
readFileThrows(n) == ~ tree[n].readable

\* the running call returns its counts: to the recursive caller, lines
\* 402-408, or to exportFileContentsToFile
collectReturn_DropsSkipped(counts) ==
  IF Len(stack) = 1
  THEN /\ stack' = <<>>
       /\ fileCount' = counts
       /\ pc' = "afterCollect"
       /\ UNCHANGED result
  ELSE /\ stack' = Append(SubSeq(stack, 1, Len(stack) - 2),
                     [stack[Len(stack) - 1] EXCEPT
                        !.counts.processed = @ + counts.processed,
                        !.i = @ + 1])
       /\ UNCHANGED <<fileCount, pc, result>>

collectReturn(counts) ==
  IF Len(stack) = 1
  THEN /\ stack' = <<>>
       /\ fileCount' = counts
       /\ pc' = "afterCollect"
       /\ UNCHANGED result
  ELSE /\ stack' = Append(SubSeq(stack, 1, Len(stack) - 2),
                     [stack[Len(stack) - 1] EXCEPT
                        !.counts.processed = @ + counts.processed,
                        !.counts.skipped = @ + counts.skipped,
                        !.i = @ + 1])
       /\ UNCHANGED <<fileCount, pc, result>>

\* an append to the artifact throws inside the walk.  Every handler on the
\* way out (lines 450-457 and 459-465 of each call) appends a record of its
\* own, which throws again while the artifact stays unwritable, so the
\* error reaches the catch block of exportFileContentsToFile, lines 335-342
collectWriteThrows ==
  /\ stack' = <<>>
  /\ pc' = "done"
  /\ result' = Failure("Failed to export file contents")
  /\ UNCHANGED <<fileCount, artifact, disk>>

\* an append of one record, and what follows when it succeeds
collectAppend(rec, then) ==
  IF writeThrows
  THEN collectWriteThrows
  ELSE /\ artifact' = Append(artifact, rec)
       /\ disk' = diskAfterWrite
       /\ then

\* lines 360-372 and 459-467, with a catch block that writes nothing
collectEnter_SilentFailure ==
  /\ pc = "collect"
  /\ stack # <<>>
  /\ Top.phase = "enter"
  /\ LET f == Top
     IN  IF DepthExceeded(walkOpts, f.currentDepth) \/ readdirThrows(f.dir)
         THEN /\ collectReturn(f.counts)
              /\ UNCHANGED <<artifact, disk>>
         ELSE /\ stack' = Append(Callers, [f EXCEPT !.phase = "loop",
                                                    !.items = readdirSync(f.dir)])
              /\ UNCHANGED <<artifact, disk, fileCount, pc, result>>
  /\ IF DepthExceeded(walkOpts, Top.currentDepth)
     THEN UNCHANGED walked
     ELSE Enumerating(Top.dir)
  /\ UNCHANGED <<tree, root, op, opts, walkOpts, out, treeResult, stats>>

\* lines 360-372 and 459-467: depth test, readdir
collectEnter ==
  /\ pc = "collect"
  /\ stack # <<>>
  /\ Top.phase = "enter"
  /\ LET f == Top
     IN  IF DepthExceeded(walkOpts, f.currentDepth)
         THEN /\ collectReturn(f.counts)
              /\ UNCHANGED <<artifact, disk>>
         ELSE IF readdirThrows(f.dir)
         THEN collectAppend(Record("dirError", f.dir, 0, 0), collectReturn(f.counts))
         ELSE /\ stack' = Append(Callers, [f EXCEPT !.phase = "loop",
                                                    !.items = readdirSync(f.dir)])
              /\ UNCHANGED <<artifact, disk, fileCount, pc, result>>
  /\ IF DepthExceeded(walkOpts, Top.currentDepth)
     THEN UNCHANGED walked
     ELSE Enumerating(Top.dir)
  /\ UNCHANGED <<tree, root, op, opts, walkOpts, out, treeResult, stats>>

\* lines 373-458: one turn of the loop over the items
collectItem ==
  /\ pc = "collect"
  /\ stack # <<>>
  /\ Top.phase = "loop"
  /\ Top.i <= Len(Top.items)
  /\ LET f       == Top
         item    == f.items[f.i]
         skip    == /\ stack' = Append(Callers, [f EXCEPT !.counts.skipped = @ + 1,
                                                         !.i = @ + 1])
                    /\ UNCHANGED <<fileCount, pc, result>>
         process == /\ stack' = Append(Callers, [f EXCEPT !.counts.processed = @ + 1,
                                                         !.i = @ + 1])
                    /\ UNCHANGED <<fileCount, pc, result>>
     IN  IF ContentSkips(item, walkOpts)
         THEN skip /\ UNCHANGED <<artifact, disk>>
         ELSE IF statThrows(item)
         THEN collectAppend(Record("statError", item, 0, 0), skip)
         ELSE IF isDirectory(item)
         THEN /\ stack' = Append(stack, ContentFrame(item, f.currentDepth + 1))
              /\ UNCHANGED <<artifact, disk, fileCount, pc, result>>
         ELSE IF TooLarge(item, walkOpts)
         THEN collectAppend(Record("tooLarge", item, 0, 0), skip)
         ELSE IF ExtensionRejected(item, walkOpts)
         THEN skip /\ UNCHANGED <<artifact, disk>>
         ELSE IF readFileThrows(item)
         THEN collectAppend(Record("unableToRead", item, 0, 0), skip)
         ELSE collectAppend(Record("content", item, 0, 0), process)
  /\ Handling(Top.items[Top.i])
  /\ UNCHANGED <<tree, root, op, opts, walkOpts, out, treeResult, stats>>

\* line 467: after the loop
collectEnd ==
  /\ pc = "collect"
  /\ stack # <<>>
  /\ Top.phase = "loop"
  /\ Top.i > Len(Top.items)
  /\ collectReturn(Top.counts)
  /\ UNCHANGED <<tree, root, disk, op, opts, walkOpts, out, artifact, treeResult, stats,
                 walked>>

(***************************************************************************)
(* collectDirectoryStats                                                   *)
(***************************************************************************)
\* the retention ceiling of the largest-files list
RetentionCeiling == 20

\* the number of largest files in the report
DisplayCeiling == 10

NoExtension == <<"(no extension)">>

EmptyStats ==
  [totalFiles |-> 0, totalDirectories |-> 0, totalSize |-> 0, fileTypes |-> <<>>,
   largestFiles |-> <<>>]

StatsFrame(d, depth) ==
  [dir |-> d, currentDepth |-> depth, phase |-> "enter", items |-> <<>>, i |-> 1]

\* lines 600-608: is the item passed over as hidden or excluded
StatsSkips_HiddenOnly(n, o) == ~ o.showHidden /\ startsWithDot(tree[n].name)

StatsSkips(n, o) ==
  \/ ~ o.showHidden /\ startsWithDot(tree[n].name)
  \/ \E k \in 1 .. Len(o.exclude) : tree[n].name = o.exclude[k]

RECURSIVE InsertDesc(_, _)
\* the sorted list with x put after every file that is not smaller
InsertDesc(sorted, x) ==
  IF sorted = <<>> THEN <<x>>
  ELSE IF Head(sorted).size >= x.size
       THEN <<Head(sorted)>> \o InsertDesc(Tail(sorted), x)
       ELSE <<x>> \o sorted

RECURSIVE SortDesc(_)
\* files.sort((a, b) => b.size - a.size): stable, descending by size
SortDesc(files) ==
  IF files = <<>> THEN <<>>
  ELSE InsertDesc(SortDesc(SubSeq(files, 1, Len(files) - 1)), files[Len(files)])

\* files.slice(0, n)
Slice(files, n) == SubSeq(files, 1, IF Len(files) < n THEN Len(files) ELSE n)

\* lines 637-647, with the trim keeping the first entries as they stand
TrackLargest_TrimUnsorted(files, x) ==
  LET pushed == Append(files, x)
  IN  IF Len(pushed) > RetentionCeiling
      THEN Slice(pushed, RetentionCeiling)
      ELSE pushed

\* lines 637-647: push, and trim when the list is longer than the ceiling
TrackLargest(files, x) ==
  LET pushed == Append(files, x)
  IN  IF Len(pushed) > RetentionCeiling
      THEN Slice(SortDesc(pushed), RetentionCeiling)
      ELSE pushed

\* lines 552-557: the files listed under "Largest Files" in the summary
LargestReported(files) == Slice(SortDesc(files), DisplayCeiling)

\* lines 629-635, with the extension taken as it is spelled
TrackType_CaseSensitive(fileTypes, n) ==
  LET e   == extname(tree[n].name)
      ext == IF e = <<>> THEN NoExtension ELSE e
      old == IF ext \in DOMAIN fileTypes THEN fileTypes[ext]
             ELSE [count |-> 0, size |-> 0]
      new == [count |-> old.count + 1, size |-> old.size + tree[n].size]
  IN  [x \in DOMAIN fileTypes \cup {ext} |-> IF x = ext THEN new ELSE fileTypes[x]]

\* lines 629-635
TrackType(fileTypes, n) ==
  LET e   == toLowerCase(extname(tree[n].name))
      ext == IF e = <<>> THEN NoExtension ELSE e
      old == IF ext \in DOMAIN fileTypes THEN fileTypes[ext]
             ELSE [count |-> 0, size |-> 0]
      new == [count |-> old.count + 1, size |-> old.size + tree[n].size]
  IN  [x \in DOMAIN fileTypes \cup {ext} |-> IF x = ext THEN new ELSE fileTypes[x]]

\* lines 624-647: a file is counted
CountFile(st, n) ==
  [st EXCEPT !.totalFiles = @ + 1,
             !.totalSize = @ + tree[n].size,
             !.fileTypes = TrackType(@, n),
             !.largestFiles = TrackLargest(@, [path |-> n, size |-> tree[n].size])]

\* the running call returns, and the caller's loop stays on the same item
statsReturn_SameItem ==
  IF Len(stack) = 1
  THEN /\ stack' = <<>>
       /\ pc' = "afterStats"
  ELSE /\ stack' = SubSeq(stack, 1, Len(stack) - 1)
       /\ UNCHANGED pc

\* the running call returns: to the recursive caller, or to
\* generateDirectorySummary
statsReturn ==
  IF Len(stack) = 1
  THEN /\ stack' = <<>>
       /\ pc' = "afterStats"
  ELSE /\ stack' = Append(SubSeq(stack, 1, Len(stack) - 2),
                          [stack[Len(stack) - 1] EXCEPT !.i = @ + 1])
       /\ UNCHANGED pc

\* lines 586-597 and 653-655: depth test, readdir
statsEnter ==
  /\ pc = "stats"
  /\ stack # <<>>
  /\ Top.phase = "enter"
  /\ IF DepthExceeded(walkOpts, Top.currentDepth) \/ readdirThrows(Top.dir)
     THEN statsReturn
     ELSE /\ stack' = Append(Callers, [Top EXCEPT !.phase = "loop",
                                                  !.items = readdirSync(Top.dir)])
          /\ UNCHANGED pc
  /\ IF DepthExceeded(walkOpts, Top.currentDepth)
     THEN UNCHANGED walked
     ELSE Enumerating(Top.dir)
  /\ UNCHANGED <<tree, root, disk, op, opts, walkOpts, out, artifact, treeResult,
                 fileCount, stats, result>>

\* lines 599-652: one turn of the loop over the items
statsItem ==
  /\ pc = "stats"
  /\ stack # <<>>
  /\ Top.phase = "loop"
  /\ Top.i <= Len(Top.items)
  /\ LET f    == Top
         item == f.items[f.i]
     IN  IF StatsSkips(item, walkOpts) \/ statThrows(item)
         THEN /\ stack' = Append(Callers, [f EXCEPT !.i = @ + 1])
              /\ UNCHANGED stats
         ELSE IF isDirectory(item)
         THEN /\ stats' = [stats EXCEPT !.totalDirectories = @ + 1]
              /\ stack' = Append(stack, StatsFrame(item, f.currentDepth + 1))
         ELSE /\ stats' = CountFile(stats, item)
              /\ stack' = Append(Callers, [f EXCEPT !.i = @ + 1])
  /\ Handling(Top.items[Top.i])
  /\ UNCHANGED <<tree, root, disk, op, opts, pc, walkOpts, out, artifact, treeResult,
                 fileCount, result>>

\* line 656: after the loop
statsEnd ==
  /\ pc = "stats"
  /\ stack # <<>>
  /\ Top.phase = "loop"
  /\ Top.i > Len(Top.items)
  /\ statsReturn
  /\ UNCHANGED <<tree, root, disk, op, opts, walkOpts, out, artifact, treeResult,
                 fileCount, stats, result, walked>>

(***************************************************************************)
(* The exported operations                                                 *)
(***************************************************************************)
NoResult == [returned |-> FALSE, success |-> FALSE, error |-> NoError, filePath |-> FALSE]

Options(maxDepth, exclude, showHidden, showSize, extensions, maxFileSize) ==
  [isNull |-> FALSE, maxDepth |-> maxDepth, exclude |-> exclude,
   showHidden |-> showHidden, showSize |-> showSize, extensions |-> extensions,
   maxFileSize |-> maxFileSize, includeStats |-> TRUE]

\* extensions = null: every extension
AllExtensions == [given |-> FALSE, list |-> <<>>]

\* extensions = list
Only(list) == [given |-> TRUE, list |-> list]

\* the size limit given as maxFileSize
FileSizeLimit == 2

\* the defaults of printTree's options, lines 26-34
DefaultOptions == Options(-1, <<>>, FALSE, FALSE, AllExtensions, FileSizeLimit)

\* the options null stands for where the code spreads or defaults them
Given(o) == IF o.isNull THEN DefaultOptions ELSE o

\* printTree(directoryPath, options): the destructuring of the options, lines
\* 24-37, lies outside the try block
printTreeCall ==
  /\ pc = "idle"
  /\ op = "printTree"
  /\ IF opts.isNull
     THEN /\ pc' = "raised"
          /\ UNCHANGED <<walkOpts, stack>>
     ELSE /\ pc' = "printTree"
          /\ walkOpts' = opts
          /\ stack' = <<Frame(RootId, <<>>, 0)>>
  /\ UNCHANGED <<tree, root, disk, op, opts, out, artifact, treeResult, fileCount,
                 stats, result, walked>>

\* simpleTreePrint(directoryPath), lines 197-204
simpleTreePrintCall ==
  /\ pc = "idle"
  /\ op = "simpleTreePrint"
  /\ pc' = "printTree"
  /\ walkOpts' = Options(-1, <<>>, FALSE, TRUE, AllExtensions, FileSizeLimit)
  /\ stack' = <<Frame(RootId, <<>>, 0)>>
  /\ UNCHANGED <<tree, root, disk, op, opts, out, artifact, treeResult, fileCount,
                 stats, result, walked>>

\* printTree hands its result to the caller
printTreeDone ==
  /\ pc = "afterTree"
  /\ op \in {"printTree", "simpleTreePrint"}
  /\ pc' = "done"
  /\ result' = [returned |-> TRUE, success |-> treeResult.success,
                error |-> treeResult.error, filePath |-> FALSE]
  /\ UNCHANGED <<tree, root, disk, op, opts, walkOpts, stack, out, artifact,
                 treeResult, fileCount, stats, walked>>

\* exportTreeToFile, lines 218-225
exportTreeToFileCall ==
  /\ pc = "idle"
  /\ op = "exportTreeToFile"
  /\ pc' = "printTree"
  /\ walkOpts' = Given(opts)
  /\ stack' = <<Frame(RootId, <<>>, 0)>>
  /\ UNCHANGED <<tree, root, disk, op, opts, out, artifact, treeResult, fileCount,
                 stats, result, walked>>

\* exportTreeToFile, lines 227-246
exportTreeToFileWrite ==
  /\ pc = "afterTree"
  /\ op = "exportTreeToFile"
  /\ pc' = "done"
  /\ IF writeThrows
     THEN /\ result' = Failure("Failed to export tree")
          /\ UNCHANGED <<artifact, disk>>
     ELSE /\ artifact' = <<Record("tree", RootId, 0, 0)>>
          /\ disk' = diskAfterWrite
          /\ result' = [returned |-> TRUE, success |-> TRUE,
                        error |-> treeResult.error, filePath |-> TRUE]
  /\ UNCHANGED <<tree, root, op, opts, walkOpts, stack, out, treeResult, fileCount, stats,
                 walked>>

\* exportFileContentsToFile, lines 266-313
exportFileContentsToFileCall ==
  /\ pc = "idle"
  /\ op = "exportFileContentsToFile"
  /\ IF opts.isNull \/ ValidationError(RootId) # NoError \/ writeThrows
     THEN /\ pc' = "done"
          /\ result' = Failure("Failed to export file contents")
          /\ UNCHANGED <<walkOpts, stack, artifact, disk>>
     ELSE /\ pc' = "collect"
          /\ artifact' = <<Record("header", RootId, 0, 0)>>
          /\ disk' = diskAfterWrite
          /\ walkOpts' = opts
          /\ stack' = <<ContentFrame(RootId, 0)>>
          /\ UNCHANGED result
  /\ UNCHANGED <<tree, root, op, opts, out, treeResult, fileCount, stats, walked>>

\* exportFileContentsToFile, lines 315-342
exportFileContentsToFileFinish ==
  /\ pc = "afterCollect"
  /\ pc' = "done"
  /\ IF writeThrows
     THEN /\ result' = Failure("Failed to export file contents")
          /\ UNCHANGED <<artifact, disk>>
     ELSE /\ artifact' = Append(artifact, Record("summary", RootId, fileCount.processed,
                                                 fileCount.skipped))
          /\ disk' = diskAfterWrite
          /\ result' = [returned |-> TRUE, success |-> TRUE, error |-> NoError,
                        filePath |-> TRUE]
  /\ UNCHANGED <<tree, root, op, opts, walkOpts, stack, out, treeResult, fileCount, stats,
                 walked>>

\* generateDirectorySummary, lines 482-517: path.resolve throws on a path
\* that is not a string
generateDirectorySummaryCall ==
  /\ pc = "idle"
  /\ op = "generateDirectorySummary"
  /\ IF opts.isNull \/ root.kind = "invalid"
     THEN /\ pc' = "done"
          /\ result' = Failure("Failed to generate directory summary")
          /\ UNCHANGED <<walkOpts, stack>>
     ELSE /\ pc' = "printTree"
          /\ walkOpts' = [opts EXCEPT !.showSize = FALSE]
          /\ stack' = <<Frame(RootId, <<>>, 0)>>
          /\ UNCHANGED result
  /\ UNCHANGED <<tree, root, disk, op, opts, out, artifact, treeResult, fileCount, stats,
                 walked>>

\* generateDirectorySummary, lines 519-526: the result of printTree is dropped
generateDirectorySummaryStats ==
  /\ pc = "afterTree"
  /\ op = "generateDirectorySummary"
  /\ IF opts.includeStats
     THEN /\ pc' = "stats"
          /\ stack' = <<StatsFrame(RootId, 0)>>
     ELSE /\ pc' = "afterStats"
          /\ UNCHANGED stack
  /\ walked' = IF opts.includeStats THEN NoWalk ELSE walked
  /\ UNCHANGED <<tree, root, disk, op, opts, walkOpts, out, artifact, treeResult,
                 fileCount, stats, result>>

\* generateDirectorySummary, lines 528-579; the sort of line 553 sorts the
\* largest-files list of the stats object in place
generateDirectorySummaryWrite ==
  /\ pc = "afterStats"
  /\ pc' = "done"
  /\ stats' = IF opts.includeStats
              THEN [stats EXCEPT !.largestFiles = SortDesc(@)]
              ELSE stats
  /\ IF writeThrows
     THEN /\ result' = Failure("Failed to generate directory summary")
          /\ UNCHANGED <<artifact, disk>>
     ELSE /\ artifact' = <<Record("summary", RootId, 0, 0)>>
          /\ disk' = diskAfterWrite
          /\ result' = [returned |-> TRUE, success |-> TRUE, error |-> NoError,
                        filePath |-> TRUE]
  /\ UNCHANGED <<tree, root, op, opts, walkOpts, stack, out, treeResult, fileCount, walked>>

(***************************************************************************)
(* Specifications                                                          *)
(***************************************************************************)
\* largest number of writes to the artifact that succeed before one fails
MaxWrites == 1

DepthOpts == -1 .. MaxDepthOpt

NullOptions == [DefaultOptions EXCEPT !.isNull = TRUE]

GoodRoot == [kind |-> "dir", readable |-> TRUE]

BadRoots == {[kind |-> "dir", readable |-> FALSE], [kind |-> "invalid", readable |-> FALSE],
             [kind |-> "missing", readable |-> FALSE], [kind |-> "file", readable |-> FALSE]}

Dir == [kind |-> "dir", readable |-> TRUE, size |-> 0]

UnreadableDir == [kind |-> "dir", readable |-> FALSE, size |-> 0]

Broken == [kind |-> "broken", readable |-> FALSE, size |-> 0]

File(size) == [kind |-> "file", readable |-> TRUE, size |-> size]

UnreadableFile(size) == [kind |-> "file", readable |-> FALSE, size |-> size]

InitIdle ==
  /\ pc = "idle"
  /\ walkOpts = DefaultOptions
  /\ stack = <<>>
  /\ out = <<>>
  /\ artifact = <<>>
  /\ treeResult = [success |-> TRUE, error |-> NoError]
  /\ fileCount = [processed |-> 0, skipped |-> 0]
  /\ stats = EmptyStats
  /\ result = NoResult
  /\ walked = NoWalk

\* a root that is a readable directory, over each of the trees; or a root
\* that is not one
InitDisk(trees) ==
  \/ /\ root = GoodRoot
     /\ tree \in trees
  \/ /\ root \in BadRoots
     /\ tree = <<>>

\* printTree on every tree of MaxNodes entries, under every tree option
InitTree ==
  /\ op = "printTree"
  /\ disk = -1
  /\ InitDisk(Trees(MaxNodes, {"a.txt", "b", ".hidden", "c.js"},
                    {Dir, UnreadableDir, File(1), Broken}))
  /\ \E d \in DepthOpts, e \in {<<>>, <<"b", "*.js">>}, h \in BOOLEAN :
       opts = Options(d, e, h, FALSE, AllExtensions, FileSizeLimit)
  /\ InitIdle

NextTree == printTreeCall \/ printTreeEnter \/ printTreeItem \/ printTreeEnd \/ printTreeDone

SpecTree == InitTree /\ [][NextTree]_vars

\* exportFileContentsToFile on every tree of MaxNodes entries whose files are
\* at the size limit or one byte above it, under every content option
InitContent ==
  /\ op = "exportFileContentsToFile"
  /\ disk = -1
  /\ InitDisk(Trees(MaxNodes, {"D.JS", "a.txt", ".hidden"},
                    {Dir, UnreadableDir, Broken, File(FileSizeLimit),
                     File(FileSizeLimit + 1), UnreadableFile(FileSizeLimit)}))
  /\ \E d \in {-1, 0}, e \in {<<>>, <<"*.txt">>}, h \in BOOLEAN,
        x \in {AllExtensions, Only(<<>>), Only(<<".js">>)} :
       opts = Options(d, e, h, FALSE, x, FileSizeLimit)
  /\ InitIdle

NextContent ==
  \/ exportFileContentsToFileCall
  \/ collectEnter
  \/ collectItem
  \/ collectEnd
  \/ exportFileContentsToFileFinish

SpecContent == InitContent /\ [][NextContent]_vars

Operations ==
  {"printTree", "simpleTreePrint", "exportTreeToFile", "exportFileContentsToFile",
   "generateDirectorySummary"}

\* every exported operation, on every root, with an artifact that takes every
\* write or stops taking them after at most MaxWrites
Init ==
  /\ op \in Operations
  /\ disk \in -1 .. MaxWrites
  /\ InitDisk(Trees(MaxNodes, {"a.js", ".hidden"},
                    {Dir, UnreadableDir, File(FileSizeLimit), Broken}))
  /\ opts \in {NullOptions, DefaultOptions,
               [Options(0, <<"a.js">>, TRUE, FALSE, Only(<<".js">>), FileSizeLimit)
                  EXCEPT !.includeStats = FALSE]}
  /\ InitIdle

Next ==
  \/ printTreeCall
  \/ simpleTreePrintCall
  \/ exportTreeToFileCall
  \/ exportFileContentsToFileCall
  \/ generateDirectorySummaryCall
  \/ printTreeEnter
  \/ printTreeItem
  \/ printTreeEnd
  \/ collectEnter
  \/ collectItem
  \/ collectEnd
  \/ statsEnter
  \/ statsItem
  \/ statsEnd
  \/ printTreeDone
  \/ exportTreeToFileWrite
  \/ exportFileContentsToFileFinish
  \/ generateDirectorySummaryStats
  \/ generateDirectorySummaryWrite

Spec == Init /\ [][Next]_vars

\* the operations that run the three walks
WalkOps == {"printTree", "exportFileContentsToFile", "generateDirectorySummary"}

\* each of them on every root and every tree of MaxNodes entries, with an
\* artifact that takes every write or stops taking them after MaxWrites
InitWalks ==
  /\ op \in WalkOps
  /\ disk \in {-1, MaxWrites}
  /\ InitDisk(Trees(MaxNodes, {"a.js", ".hidden"}, {Dir, File(FileSizeLimit), Broken}))
  /\ opts \in {DefaultOptions,
               Options(MaxDepthOpt, <<"a.js">>, TRUE, FALSE, Only(<<".js">>), FileSizeLimit)}
  /\ InitIdle

NextWalks ==
  \/ printTreeCall
  \/ exportFileContentsToFileCall
  \/ generateDirectorySummaryCall
  \/ printTreeEnter
  \/ printTreeItem
  \/ printTreeEnd
  \/ collectEnter
  \/ collectItem
  \/ collectEnd
  \/ statsEnter
  \/ statsItem
  \/ statsEnd
  \/ printTreeDone
  \/ exportFileContentsToFileFinish
  \/ generateDirectorySummaryStats
  \/ generateDirectorySummaryWrite

\* the code is synchronous: once an operation is called, the step that
\* comes next is taken
SpecTermination == InitWalks /\ [][NextWalks]_vars /\ WF_vars(NextWalks)

\* root/{a.txt (5 bytes), b/.hidden (1 byte), b/c.js (10 bytes)}, in each
\* order in which the two directories may be listed
ScenarioTree(bFirst, hiddenFirst) ==
  LET a  == [parent |-> RootId, name |-> "a.txt", kind |-> "file", readable |-> TRUE,
             size |-> 5]
      b  == [parent |-> RootId, name |-> "b", kind |-> "dir", readable |-> TRUE,
             size |-> 0]
      bId == IF bFirst THEN 1 ELSE 2
      h  == [parent |-> bId, name |-> ".hidden", kind |-> "file", readable |-> TRUE,
             size |-> 1]
      c  == [parent |-> bId, name |-> "c.js", kind |-> "file", readable |-> TRUE,
             size |-> 10]
  IN  (IF bFirst THEN <<b, a>> ELSE <<a, b>>)
      \o (IF hiddenFirst THEN <<h, c>> ELSE <<c, h>>)

\* printTree and generateDirectorySummary on the scenario directory
InitScenario ==
  /\ op \in {"printTree", "generateDirectorySummary"}
  /\ disk \in -1 .. MaxWrites
  /\ root = GoodRoot
  /\ \E bFirst \in BOOLEAN, hiddenFirst \in BOOLEAN :
       tree = ScenarioTree(bFirst, hiddenFirst)
  /\ \E d \in DepthOpts, h \in BOOLEAN :
       opts = Options(d, <<>>, h, FALSE, AllExtensions, FileSizeLimit)
  /\ InitIdle

NextScenario ==
  \/ printTreeCall
  \/ generateDirectorySummaryCall
  \/ printTreeEnter
  \/ printTreeItem
  \/ printTreeEnd
  \/ statsEnter
  \/ statsItem
  \/ statsEnd
  \/ printTreeDone
  \/ generateDirectorySummaryStats
  \/ generateDirectorySummaryWrite

SpecScenario == InitScenario /\ [][NextScenario]_vars

\* the operations that take an exclude list from their caller
ExcludeOps ==
  {"printTree", "exportTreeToFile", "exportFileContentsToFile", "generateDirectorySummary"}

\* exclude = ["node_modules"] on every tree of MaxNodes + 1 entries named
\* node_modules, pkg or index.js (node_modules/pkg/index.js among them)
InitExclude ==
  /\ op \in ExcludeOps
  /\ disk = -1
  /\ root = GoodRoot
  /\ tree \in Trees(MaxNodes + 1, {"node_modules", "pkg", "index.js"}, {Dir, File(1)})
  /\ \E d \in {-1, MaxDepthOpt} :
       opts = Options(d, <<"node_modules">>, FALSE, FALSE, AllExtensions, FileSizeLimit)
  /\ InitIdle

NextExclude ==
  \/ printTreeCall
  \/ exportTreeToFileCall
  \/ exportFileContentsToFileCall
  \/ generateDirectorySummaryCall
  \/ printTreeEnter
  \/ printTreeItem
  \/ printTreeEnd
  \/ collectEnter
  \/ collectItem
  \/ collectEnd
  \/ statsEnter
  \/ statsItem
  \/ statsEnd
  \/ printTreeDone
  \/ exportTreeToFileWrite
  \/ exportFileContentsToFileFinish
  \/ generateDirectorySummaryStats
  \/ generateDirectorySummaryWrite

SpecExclude == InitExclude /\ [][NextExclude]_vars

\* number of files in the largest tree of the largest-files runs, above the
\* retention ceiling
MaxFiles == 22

\* a tree of Len(sizes) files, one per directory level: level k holds the
\* file a.txt of sizes[k] bytes and, above the last level, the directory b
\* that holds level k + 1
ChainTree(sizes) ==
  [id \in 1 .. 2 * Len(sizes) - 1 |->
     IF id % 2 = 1
     THEN [parent |-> id - 1, name |-> "a.txt", kind |-> "file", readable |-> TRUE,
           size |-> sizes[(id + 1) \div 2]]
     ELSE [parent |-> id - 2, name |-> "b", kind |-> "dir", readable |-> TRUE,
           size |-> 0]]

\* the orders in which the sizes are met: growing, shrinking, one large file
\* among small ones and one small file among large ones, at every position
SizeOrders ==
  {[k \in 1 .. n |-> k] : n \in 1 .. MaxFiles}
  \cup {[k \in 1 .. n |-> n + 1 - k] : n \in 1 .. MaxFiles}
  \cup {[k \in 1 .. MaxFiles |-> IF k = p THEN 2 ELSE 1] : p \in 1 .. MaxFiles}
  \cup {[k \in 1 .. MaxFiles |-> IF k = p THEN 1 ELSE 2] : p \in 1 .. MaxFiles}

\* generateDirectorySummary on trees of up to MaxFiles files
InitLargest ==
  /\ op = "generateDirectorySummary"
  /\ disk = -1
  /\ root = GoodRoot
  /\ \E sizes \in SizeOrders : tree = ChainTree(sizes)
  /\ opts = DefaultOptions
  /\ InitIdle

NextLargest ==
  \/ generateDirectorySummaryCall
  \/ printTreeEnter
  \/ printTreeItem
  \/ printTreeEnd
  \/ generateDirectorySummaryStats
  \/ statsEnter
  \/ statsItem
  \/ statsEnd
  \/ generateDirectorySummaryWrite

SpecLargest == InitLargest /\ [][NextLargest]_vars

\* generateDirectorySummary on every tree of MaxNodes entries and on the
\* scenario directory, under every option of the statistics walk
InitStats ==
  /\ op = "generateDirectorySummary"
  /\ disk = -1
  /\ root = GoodRoot
  /\ \/ tree \in Trees(MaxNodes, {"c.js", "D.JS", ".hidden"},
                        {Dir, UnreadableDir, Broken, File(1), File(FileSizeLimit)})
     \/ \E bFirst \in BOOLEAN, hiddenFirst \in BOOLEAN :
          tree = ScenarioTree(bFirst, hiddenFirst)
  /\ \E d \in DepthOpts, e \in {<<>>, <<"c.js">>}, h \in BOOLEAN :
       opts = Options(d, e, h, FALSE, AllExtensions, FileSizeLimit)
  /\ InitIdle

SpecStats == InitStats /\ [][NextLargest]_vars

(***************************************************************************)
(* What the walk of printTree covers, read off the tree on disk.           *)
(***************************************************************************)
RECURSIVE Entered(_)
\* printTree is called on directory d and gets as far as reading it
Entered(d) ==
  IF d = RootId
  THEN ValidationError(RootId) = NoError /\ ~ DepthExceeded(walkOpts, 0)
  ELSE /\ Entered(tree[d].parent)
       /\ ~ readdirThrows(tree[d].parent)
       /\ TreeFilter(d, walkOpts)
       /\ isDirectory(d)
       /\ ~ DepthExceeded(walkOpts, Level(d))

\* the directory is read and its entries are listed
Enumerated(d) == Entered(d) /\ ~ readdirThrows(d)

\* the entry is in a listing that printTree walks through
Listed(n) == Enumerated(tree[n].parent) /\ TreeFilter(n, walkOpts)

\* the positions in the output of the lines for entry n
EntryLines(n) ==
  {i \in 1 .. Len(out) : out[i].kind \in {"entry", "entryError"} /\ out[i].node = n}

TreeWalkDone == pc = "done" /\ op = "printTree"

(***************************************************************************)
(* C1                                                                      *)
(***************************************************************************)
\* PathFilter of the design: hidden names, then the exclude patterns, a
\* pattern with "*" as an anchored wildcard
PathFilterVisible(n, o) ==
  /\ ~ (~ o.showHidden /\ startsWithDot(tree[n].name))
  /\ ~ \E k \in 1 .. Len(o.exclude) :
         IF includesStar(o.exclude[k])
         THEN minimatch(tree[n].name, o.exclude[k])
         ELSE tree[n].name = o.exclude[k]

RECURSIVE PathFilterEnumerated(_)
\* directory d is one the design has the walk enumerate
PathFilterEnumerated(d) ==
  IF d = RootId
  THEN Enumerated(RootId)
  ELSE /\ PathFilterEnumerated(tree[d].parent)
       /\ PathFilterVisible(d, walkOpts)
       /\ isDirectory(d)
       /\ ~ readdirThrows(d)
       /\ ~ DepthExceeded(walkOpts, Level(d))

\* C1: when printTree has returned, every child of every enumerated directory
\* has exactly one entry line if PathFilter (wildcards included) declares it
\* visible, and none if it does not.
C1_EmitsExactlyPathFilterVisible ==
  TreeWalkDone =>
    \A n \in Entries :
      PathFilterEnumerated(tree[n].parent) =>
        Cardinality(EntryLines(n)) = IF PathFilterVisible(n, walkOpts) THEN 1 ELSE 0

(***************************************************************************)
(* C2                                                                      *)
(***************************************************************************)
\* C2 as claimed: with maxDepth = k >= 0 no line is emitted for an entry more
\* than k levels below the root (so none at all for maxDepth = 0).
C2_NoLineBelowMaxDepth ==
  (op = "printTree" /\ walkOpts.maxDepth >= 0) =>
    \A n \in Entries : EntryLines(n) # {} => Level(n) <= walkOpts.maxDepth

\* C2 amended: with maxDepth = k >= 0 no line is emitted for an entry more
\* than k + 1 levels below the root: the children of the root, 1 level below
\* it, are emitted for maxDepth = 0 and nothing below them is.
C2_NoLineBelowMaxDepthPlusOne ==
  (op = "printTree" /\ walkOpts.maxDepth >= 0) =>
    \A n \in Entries : EntryLines(n) # {} => Level(n) <= walkOpts.maxDepth + 1

\* the walk with maxDepth = 0 is over: a child of the root was emitted, and
\* an entry of a readable, emitted directory below it was not
C2_Witness ==
  /\ TreeWalkDone
  /\ walkOpts.maxDepth = 0
  /\ \E n \in Entries, m \in Entries :
       /\ tree[m].parent = n /\ tree[n].parent = RootId
       /\ isDirectory(n) /\ ~ readdirThrows(n)
       /\ EntryLines(n) # {}
       /\ TreeFilter(m, walkOpts)
       /\ EntryLines(m) = {}

(***************************************************************************)
(* C4                                                                      *)
(***************************************************************************)
\* a directory below the root that the walk enters and cannot read
FailingSubdirs == {d \in Entries : Entered(d) /\ readdirThrows(d)}

\* C4 as claimed: a directory below the root that cannot be read makes the
\* top-level result a failure, and every listed entry is still emitted once.
C4_SubtreeErrorFails ==
  (TreeWalkDone /\ Enumerated(RootId) /\ FailingSubdirs # {}) =>
    /\ result.success = FALSE
    /\ \A n \in Entries : Cardinality(EntryLines(n)) = IF Listed(n) THEN 1 ELSE 0

\* C4 amended: a directory below the root that cannot be read leaves the
\* top-level result with success = true; its error is recorded in the result
\* exactly when it is a direct child of the root; and every entry in a listing
\* of the walk, the failing directory's siblings included, is emitted once.
C4_SubtreeErrorKeepsSuccess ==
  (TreeWalkDone /\ Enumerated(RootId) /\ FailingSubdirs # {}) =>
    /\ result.success = TRUE
    /\ (result.error # NoError) <=> (\E d \in FailingSubdirs : tree[d].parent = RootId)
    /\ \A n \in Entries : Cardinality(EntryLines(n)) = IF Listed(n) THEN 1 ELSE 0

\* the walk is over, a directory could not be read, and a sibling that
\* comes after it in the listing was emitted
C4_Witness ==
  /\ TreeWalkDone
  /\ \E d \in FailingSubdirs, n \in Entries :
       /\ tree[n].parent = tree[d].parent
       /\ \E i \in EntryLines(d), j \in EntryLines(n) : i < j
  /\ result.success = TRUE

(***************************************************************************)
(* C6                                                                      *)
(***************************************************************************)
RealDir(n) == ~ statThrows(n) /\ isDirectory(n)

RealFile(n) == ~ statThrows(n) /\ ~ isDirectory(n)

\* C6: of two entries of one listing, the one emitted first is not a file, nor
\* an entry whose stat fails, when the other is a directory; and two
\* directories, or two files, are emitted in the order of their names.
C6_DirectoriesFirstThenNames ==
  op = "printTree" =>
    \A a \in Entries, b \in Entries :
      (/\ a # b
       /\ tree[a].parent = tree[b].parent
       /\ \E i \in EntryLines(a), j \in EntryLines(b) : i < j)
      => /\ ~ (RealDir(b) /\ ~ RealDir(a))
         /\ ((RealDir(a) /\ RealDir(b)) \/ (RealFile(a) /\ RealFile(b)))
              => localeCompare(tree[a].name, tree[b].name) < 0

(***************************************************************************)
(* C3                                                                      *)
(***************************************************************************)
\* the path given is not a string, does not exist or is not a directory
RootFails == ValidationError(RootId) # NoError

\* C3: an exported operation whose walk fails at its root returns a result
\* with success = false, and none with success = true and a filePath.
C3_RootFailureReturnsFailure ==
  (pc = "done" /\ RootFails) =>
    /\ result.success = FALSE
    /\ ~ (result.success /\ result.filePath)

(***************************************************************************)
(* C9                                                                      *)
(***************************************************************************)
\* C9: no exported operation raises to its caller, whatever the path, the
\* options and the failures of the filesystem.
C9_NeverRaises == pc # "raised"

(***************************************************************************)
(* C5                                                                      *)
(***************************************************************************)
\* the names on the lines of the output, in order
ItemsEmitted ==
  [i \in 1 .. Len(out) |-> IF out[i].kind = "root" THEN "root/" ELSE out[i].item]

\* printTree has returned from the scenario directory under default options
ScenarioDone ==
  /\ pc = "done"
  /\ op = "printTree"
  /\ walkOpts = DefaultOptions

\* C5 as claimed: the lines are root/, a.txt, b/, c.js, and none for .hidden.
C5_ScenarioFilesFirst ==
  ScenarioDone => ItemsEmitted = <<"root/", "a.txt", "b", "c.js">>

\* C5 amended: the lines are root/, b/, c.js under b/, a.txt (the directory
\* before the file), and none for .hidden.
C5_ScenarioDirectoriesFirst ==
  ScenarioDone =>
    /\ ItemsEmitted = <<"root/", "b", "c.js", "a.txt">>
    /\ out[2].slash /\ out[3].prefix = <<Bar>> /\ out[4].prefix = <<>>

C5_Witness == ScenarioDone /\ Len(out) = 4 /\ tree[1].name = "a.txt"

(***************************************************************************)
(* What the walk of collectFileContents covers, read off the tree on disk. *)
(***************************************************************************)
RECURSIVE ContentEntered(_)
\* collectFileContents is called on directory d and gets as far as reading it
ContentEntered(d) ==
  IF d = RootId
  THEN ValidationError(RootId) = NoError /\ ~ DepthExceeded(walkOpts, 0)
  ELSE /\ ContentEntered(tree[d].parent)
       /\ ~ readdirThrows(tree[d].parent)
       /\ ~ ContentSkips(d, walkOpts)
       /\ ~ statThrows(d)
       /\ isDirectory(d)
       /\ ~ DepthExceeded(walkOpts, Level(d))

\* the entries the loop of some call goes through
ContentMet == {n \in Entries : ContentEntered(tree[n].parent)
                               /\ ~ readdirThrows(tree[n].parent)}

\* of these, the ones passed over as hidden or excluded
ContentPassedOver == {n \in ContentMet : ContentSkips(n, walkOpts)}

\* the ones whose stat fails
ContentStatFailed == {n \in ContentMet \ ContentPassedOver : statThrows(n)}

\* the files the walk visits
ContentFiles == {n \in ContentMet \ ContentPassedOver : RealFile(n)}

\* the kinds of the records of entry n in the artifact, in order
RECURSIVE KindsFrom(_, _)
KindsFrom(n, i) ==
  IF i > Len(artifact) THEN <<>>
  ELSE IF artifact[i].node = n /\ artifact[i].kind \notin {"header", "summary"}
       THEN <<artifact[i].kind>> \o KindsFrom(n, i + 1)
       ELSE KindsFrom(n, i + 1)

Records(n) == KindsFrom(n, 1)

\* the file's extension, in lower case, is in the allow-list
ExtensionInList(n) ==
  \E k \in 1 .. Len(walkOpts.extensions.list) :
    Spelling[walkOpts.extensions.list[k]] = toLowerCase(extname(tree[n].name))

OverLimit(n) == tree[n].size > walkOpts.maxFileSize

\* the content export has returned its result, a success
ContentDone ==
  /\ pc = "done"
  /\ op = "exportFileContentsToFile"
  /\ result.success

(***************************************************************************)
(* C7                                                                      *)
(***************************************************************************)
\* C7 as claimed: with an allow-list given (one that names an extension), a
\* visited file whose extension is not in it leaves no record, whatever its
\* size, and content is written only for files whose extension is in the list.
C7_UnlistedExtensionLeavesNoRecord ==
  (ContentDone /\ walkOpts.extensions.given /\ Len(walkOpts.extensions.list) > 0) =>
    \A n \in ContentFiles :
      /\ ~ ExtensionInList(n) => Records(n) = <<>>
      /\ "content" \in Range(Records(n)) => ExtensionInList(n)

\* the entries the allow-list, the size limit and the read leave uncounted
\* as processed, with the ones passed over and the ones whose stat fails
ExpectedSkipped ==
  ContentPassedOver \cup ContentStatFailed \cup
  {n \in ContentFiles :
     \/ OverLimit(n)
     \/ walkOpts.extensions.given /\ Len(walkOpts.extensions.list) > 0
        /\ ~ ExtensionInList(n)
     \/ readFileThrows(n)}

\* C7 amended: with a non-empty allow-list given, a visited file whose
\* extension is not in it is counted as skipped, and leaves no record when
\* its size is within maxFileSize and one FILE TOO LARGE placeholder when it
\* is not; content is written only for files whose extension is in the list.
C7_UnlistedExtensionSkipped ==
  (ContentDone /\ walkOpts.extensions.given /\ Len(walkOpts.extensions.list) > 0) =>
    /\ \A n \in ContentFiles :
         /\ (~ ExtensionInList(n) /\ ~ OverLimit(n)) => Records(n) = <<>>
         /\ (~ ExtensionInList(n) /\ OverLimit(n)) => Records(n) = <<"tooLarge">>
         /\ ExtensionInList(n) \/ Records(n) \in {<<>>, <<"tooLarge">>}
    /\ fileCount.skipped = Cardinality(ExpectedSkipped)

\* the export is over: one file outside the list left no record, another
\* one, in the list under an extension in upper case, had its content written
C7_Witness ==
  /\ ContentDone
  /\ walkOpts.extensions = Only(<<".js">>)
  /\ \E n \in ContentFiles, m \in ContentFiles :
       /\ tree[n].name = "a.txt" /\ Records(n) = <<>>
       /\ tree[m].name = "D.JS" /\ Records(m) = <<"content">>

(***************************************************************************)
(* C8                                                                      *)
(***************************************************************************)
\* no entry of the tree matches a pattern of the exclude list
NoExcludedEntries ==
  \A n \in Entries : ~ ContentSkips(n, [walkOpts EXCEPT !.showHidden = TRUE])

\* C8 as claimed: for a tree with no excluded entries, processed + skipped is
\* the number of files the walk visited; nothing else is counted.
C8_CountsAreVisitedFiles ==
  (ContentDone /\ NoExcludedEntries) =>
    fileCount.processed + fileCount.skipped = Cardinality(ContentFiles)

\* C8 amended: for a tree with no excluded entries, processed + skipped is
\* the number of files the walk visited, plus the number of entries (files
\* and directories) it passed over as hidden, plus the number of entries
\* whose stat failed.
C8_CountsAreVisitedFilesAndPassedOver ==
  (ContentDone /\ NoExcludedEntries) =>
    fileCount.processed + fileCount.skipped =
      Cardinality(ContentFiles) + Cardinality(ContentPassedOver)
        + Cardinality(ContentStatFailed)

\* the export is over: a file was processed and a hidden entry was counted
C8_Witness ==
  /\ ContentDone /\ NoExcludedEntries
  /\ \E n \in ContentFiles : Records(n) = <<"content">>
  /\ fileCount.processed >= 1
  /\ ContentPassedOver # {}

(***************************************************************************)
(* C10                                                                     *)
(***************************************************************************)
\* C10 as claimed: a visited file of exactly maxFileSize bytes (one that can
\* be read) has its content written; one of maxFileSize + 1 bytes gets the
\* FILE TOO LARGE placeholder and is not read.
C10_LimitIsInclusive ==
  ContentDone =>
    \A n \in ContentFiles :
      /\ (tree[n].size = walkOpts.maxFileSize /\ ~ readFileThrows(n))
           => Records(n) = <<"content">>
      /\ tree[n].size = walkOpts.maxFileSize + 1 => Records(n) = <<"tooLarge">>

\* the visited files whose content is written
ExpectedProcessed == ContentFiles \ ExpectedSkipped

\* C10 amended: a visited file of exactly maxFileSize bytes whose extension
\* passes the allow-list and whose read succeeds has its content written and
\* is counted as processed; one of maxFileSize + 1 bytes is counted as
\* skipped, gets the FILE TOO LARGE placeholder and is not read.
C10_LimitIsInclusiveForAcceptedFiles ==
  ContentDone =>
    /\ \A n \in ContentFiles :
         /\ (tree[n].size = walkOpts.maxFileSize /\ n \in ExpectedProcessed)
              => Records(n) = <<"content">>
         /\ tree[n].size = walkOpts.maxFileSize + 1 => Records(n) = <<"tooLarge">>
    /\ fileCount.processed = Cardinality(ExpectedProcessed)
    /\ fileCount.skipped = Cardinality(ExpectedSkipped)

\* the export is over: a file at the limit was written, a file one byte
\* above it got the placeholder
C10_Witness ==
  /\ ContentDone
  /\ \E n \in ContentFiles, m \in ContentFiles :
       /\ tree[n].size = walkOpts.maxFileSize /\ Records(n) = <<"content">>
       /\ tree[m].size = walkOpts.maxFileSize + 1 /\ Records(m) = <<"tooLarge">>

(***************************************************************************)
(* C11                                                                     *)
(***************************************************************************)
RECURSIVE InNodeModules(_)
\* the entry is named node_modules or lies below an entry of that name
InNodeModules(n) ==
  /\ n # RootId
  /\ (tree[n].name = "node_modules" \/ InNodeModules(tree[n].parent))

RECURSIVE SumOfSizes(_)
SumOfSizes(S) ==
  IF S = {} THEN 0
  ELSE LET n == CHOOSE x \in S : TRUE IN tree[n].size + SumOfSizes(S \ {n})

RECURSIVE StatsEntered(_)
\* collectDirectoryStats is called on directory d and gets as far as reading it
StatsEntered(d) ==
  IF d = RootId
  THEN ~ DepthExceeded(walkOpts, 0)
  ELSE /\ StatsEntered(tree[d].parent)
       /\ ~ readdirThrows(tree[d].parent)
       /\ ~ StatsSkips(d, walkOpts)
       /\ ~ statThrows(d)
       /\ isDirectory(d)
       /\ ~ DepthExceeded(walkOpts, Level(d))

\* the entries the statistics walk visits: met in a listing, not passed over
StatsVisited == {n \in Entries : /\ StatsEntered(tree[n].parent)
                                 /\ ~ readdirThrows(tree[n].parent)
                                 /\ ~ StatsSkips(n, walkOpts)
                                 /\ ~ statThrows(n)}

StatsFiles == {n \in StatsVisited : RealFile(n)}

StatsDirs == {n \in StatsVisited : RealDir(n)}

\* generateDirectorySummary has returned its result, a success
SummaryDone ==
  /\ pc = "done"
  /\ op = "generateDirectorySummary"
  /\ result.success

\* C11: with exclude = ["node_modules"], no line of the tree output, no record
\* of the content export and no entry of the largest-files list refers to an
\* entry named node_modules or to anything below one, and the totals of the
\* summary are those of the visited files outside every node_modules.
C11_NodeModulesLeftOut ==
  opts.exclude = <<"node_modules">> =>
    /\ \A i \in 1 .. Len(out) : ~ InNodeModules(out[i].node)
    /\ \A i \in 1 .. Len(artifact) : ~ InNodeModules(artifact[i].node)
    /\ \A i \in 1 .. Len(stats.largestFiles) : ~ InNodeModules(stats.largestFiles[i].path)
    /\ SummaryDone =>
         LET outside == {n \in Entries : RealFile(n) /\ ~ InNodeModules(n)
                                         /\ Level(n) <= IF walkOpts.maxDepth < 0
                                                        THEN Level(n)
                                                        ELSE walkOpts.maxDepth + 1}
         IN  /\ stats.totalFiles = Cardinality(outside)
             /\ stats.totalSize = SumOfSizes(outside)

\* the summary of a tree with node_modules/pkg/index.js is written, and
\* counted nothing
C11_Witness ==
  /\ SummaryDone
  /\ opts.exclude = <<"node_modules">>
  /\ \E n \in Entries, p \in Entries, f \in Entries :
       /\ tree[n].name = "node_modules" /\ isDirectory(n) /\ tree[n].parent = RootId
       /\ tree[p].name = "pkg" /\ isDirectory(p) /\ tree[p].parent = n
       /\ tree[f].name = "index.js" /\ RealFile(f) /\ tree[f].parent = p
  /\ stats.totalFiles = 0
  /\ Len(out) = 2

(***************************************************************************)
(* C12                                                                     *)
(***************************************************************************)
\* C12: the retained largest-files list never holds more than 20 entries, and
\* when the summary is written the list shown (sorted descending, cut to 10)
\* holds 10 visited files, or all of them when fewer were visited, in
\* descending order of size, none smaller than a visited file left out.
C12_TenLargestShown ==
  /\ Len(stats.largestFiles) <= RetentionCeiling
  /\ (SummaryDone /\ opts.includeStats) =>
       LET shown == LargestReported(stats.largestFiles)
           paths == {shown[i].path : i \in 1 .. Len(shown)}
       IN  /\ Len(shown) = IF Cardinality(StatsFiles) < DisplayCeiling
                           THEN Cardinality(StatsFiles) ELSE DisplayCeiling
           /\ Cardinality(paths) = Len(shown)
           /\ paths \subseteq StatsFiles
           /\ \A i \in 1 .. Len(shown) : shown[i].size = tree[shown[i].path].size
           /\ \A i \in 1 .. Len(shown), j \in 1 .. Len(shown) :
                i < j => shown[i].size >= shown[j].size
           /\ \A n \in StatsFiles \ paths, i \in 1 .. Len(shown) :
                tree[n].size <= shown[i].size

\* the summary of more than 20 files of growing sizes is written: the list
\* was trimmed and the file met last, the largest, is shown first
C12_Witness ==
  /\ SummaryDone
  /\ Cardinality(StatsFiles) > RetentionCeiling
  /\ \A n \in StatsFiles : tree[n].size = Level(n)
  /\ Len(stats.largestFiles) = RetentionCeiling
  /\ LargestReported(stats.largestFiles)[1].size = Cardinality(StatsFiles)

(***************************************************************************)
(* C13                                                                     *)
(***************************************************************************)
\* every directory of the tree can be read and every entry can be examined
NoFilesystemErrors ==
  /\ ~ readdirThrows(RootId)
  /\ \A n \in Entries : ~ statThrows(n) /\ (isDirectory(n) => ~ readdirThrows(n))

\* the bucket of a file: its extension in lower case, or "(no extension)"
Bucket(n) ==
  LET e == toLowerCase(extname(tree[n].name))
  IN  IF e = <<>> THEN NoExtension ELSE e

\* C13: after the statistics walk of a tree without filesystem errors,
\* totalFiles, totalDirectories and totalSize are the number of visited
\* files, the number of visited directories below the root and the sum of the
\* visited files' sizes, and every extension's bucket holds the number and
\* the summed size of the visited files of that extension in lower case; for
\* the scenario directory under default options they are 2, 1 and 15.
C13_TotalsMatchVisited ==
  (SummaryDone /\ opts.includeStats /\ NoFilesystemErrors) =>
    /\ stats.totalFiles = Cardinality(StatsFiles)
    /\ stats.totalDirectories = Cardinality(StatsDirs)
    /\ stats.totalSize = SumOfSizes(StatsFiles)
    /\ DOMAIN stats.fileTypes = {Bucket(n) : n \in StatsFiles}
    /\ \A e \in DOMAIN stats.fileTypes :
         LET files == {n \in StatsFiles : Bucket(n) = e}
         IN  /\ stats.fileTypes[e].count = Cardinality(files)
             /\ stats.fileTypes[e].size = SumOfSizes(files)
    /\ (/\ \E bFirst \in BOOLEAN, hiddenFirst \in BOOLEAN :
             tree = ScenarioTree(bFirst, hiddenFirst)
        /\ ~ walkOpts.showHidden /\ walkOpts.maxDepth < 0 /\ walkOpts.exclude = <<>>)
       => /\ stats.totalFiles = 2
          /\ stats.totalDirectories = 1
          /\ stats.totalSize = 15

\* the summary is written for a directory that holds c.js and D.JS: both are
\* counted in the bucket .js
C13_Witness ==
  /\ SummaryDone /\ opts.includeStats /\ NoFilesystemErrors
  /\ \E n \in StatsFiles, m \in StatsFiles :
       tree[n].name = "c.js" /\ tree[m].name = "D.JS"
  /\ stats.fileTypes[Spelling[".js"]].count = 2

(***************************************************************************)
(* C14                                                                     *)
(***************************************************************************)
\* the records an entry leaves in the artifact, from what the entry is
ExpectedRecords(n) ==
  IF n = RootId
  THEN IF ContentEntered(n) /\ readdirThrows(n) THEN <<"dirError">> ELSE <<>>
  ELSE IF n \notin ContentMet \/ n \in ContentPassedOver THEN <<>>
  ELSE IF statThrows(n) THEN <<"statError">>
  ELSE IF isDirectory(n)
       THEN IF ContentEntered(n) /\ readdirThrows(n) THEN <<"dirError">> ELSE <<>>
  ELSE IF OverLimit(n) THEN <<"tooLarge">>
  ELSE IF n \in ExpectedSkipped
       THEN IF readFileThrows(n) /\ ~ ExtensionRejected(n, walkOpts)
            THEN <<"unableToRead">> ELSE <<>>
  ELSE <<"content">>

\* C14: in a content export a directory that cannot be enumerated leaves one
\* directory-error record and an entry whose stat fails one stat-error
\* record, and every other entry that the walk reaches leaves the records,
\* and adds to the counts, what it would without the failure.
C14_FailuresAreIsolated ==
  ContentDone =>
    /\ \A n \in Entries \cup {RootId} : Records(n) = ExpectedRecords(n)
    /\ fileCount.processed = Cardinality(ExpectedProcessed)
    /\ fileCount.skipped = Cardinality(ExpectedSkipped)

\* the export is over: a directory that could not be read left its error
\* record, and the content of a file listed after it was written after that
C14_Witness ==
  /\ ContentDone
  /\ \E d \in Entries, n \in Entries, i \in 1 .. Len(artifact), j \in 1 .. Len(artifact) :
       /\ tree[d].parent = tree[n].parent
       /\ isDirectory(d) /\ readdirThrows(d)
       /\ artifact[i] = Record("dirError", d, 0, 0)
       /\ artifact[j] = Record("content", n, 0, 0)
       /\ i < j

(***************************************************************************)
(* C15                                                                     *)
(***************************************************************************)
\* the positions in the output of the lines of directory d's own listing:
\* the lines of its entries, or its [empty] marker
ListingLines(d) ==
  {i \in 1 .. Len(out) :
     \/ out[i].kind \in {"entry", "entryError"} /\ tree[out[i].node].parent = d
     \/ out[i].kind = "empty" /\ out[i].node = d}

\* C15: when printTree has returned, the listing of every directory it
\* enumerated has one line per visible entry, or the single [empty] marker
\* when none is visible; its last line, and no other, carries the last-entry
\* connector, the others the non-last connector; and its lines carry the
\* prefix of the directory's own line extended by one four-character
\* segment (blank below a last entry, a bar otherwise), none at the root.
C15_OneLastConnectorPerListing ==
  TreeWalkDone =>
    \A d \in Entries \cup {RootId} :
      Enumerated(d) =>
        LET own     == ListingLines(d)
            visible == {n \in Entries : tree[n].parent = d /\ TreeFilter(n, walkOpts)}
            final   == CHOOSE i \in own : \A j \in own : j <= i
        IN  /\ own # {}
            /\ IF visible = {}
               THEN Cardinality(own) = 1 /\ out[final].kind = "empty"
               ELSE /\ Cardinality(own) = Cardinality(visible)
                    /\ \A i \in own : out[i].kind # "empty"
            /\ \A i \in own : out[i].connector = IF i = final THEN Last ELSE NotLast
            /\ Cardinality({i \in own : out[i].connector = Last}) = 1
            /\ \A i \in own :
                 IF d = RootId
                 THEN out[i].prefix = <<>>
                 ELSE \E k \in EntryLines(d) :
                        /\ Len(out[i].prefix) = Len(out[k].prefix) + 1
                        /\ out[i].prefix =
                             Append(out[k].prefix,
                                    IF out[k].connector = Last THEN Blank ELSE Bar)

\* the walk is over: the root listed two entries, the first a directory
\* whose own listing is the [empty] marker under a bar
C15_Witness ==
  /\ TreeWalkDone
  /\ \E d \in Entries, n \in Entries, i \in 1 .. Len(out) :
       /\ tree[d].parent = RootId /\ tree[n].parent = RootId /\ d # n
       /\ Enumerated(d)
       /\ \E k \in EntryLines(d), m \in EntryLines(n) :
            k < m /\ out[k].connector = NotLast /\ out[m].connector = Last
       /\ out[i] = Line("empty", <<Bar>>, Last, d, FALSE, -1)

(***************************************************************************)
(* C16                                                                     *)
(***************************************************************************)
\* a walk is running
Walking == pc \in {"printTree", "collect", "stats"}

NoRepeats(s) == \A i \in 1 .. Len(s), j \in 1 .. Len(s) : i # j => s[i] # s[j]

\* C16: every walk that begins comes to its end, with no call left on the
\* stack, and no walk calls readdir on a directory twice or takes up an
\* entry twice.
C16_WalksTerminate ==
  /\ Walking ~> (~ Walking /\ stack = <<>>)
  /\ [](NoRepeats(walked.dirs) /\ NoRepeats(walked.items))

\* the summary is written after a statistics walk that read the root and a
\* directory below it and took up an entry in each
C16_Witness ==
  /\ SummaryDone
  /\ opts.includeStats
  /\ stack = <<>>
  /\ Len(walked.dirs) = 2
  /\ \E i \in 1 .. Len(walked.items), j \in 1 .. Len(walked.items) :
       /\ tree[walked.items[i]].parent = RootId
       /\ tree[walked.items[j]].parent = walked.items[i]
====
